---- MODULE Spec2Model ----
(***************************************************************************)
(* Document store (JSONStorage), ingestion route (POST /api/data) and      *)
(* search route (POST /api/search) of semantic-search-next-app.            *)
(*                                                                         *)
(* JavaScript values are tagged records ([ty |-> "undefined"],             *)
(* [ty |-> "string", s |-> <<chars>>], [ty |-> "array", a |-> <<...>>],    *)
(* [ty |-> "object"]).  The backing file is a sequence of JSON tokens, so  *)
(* that JSON.stringify / JSON.parse are conversions and a write that is    *)
(* cut short leaves a text JSON.parse rejects.                             *)
(*                                                                         *)
(* A request handler runs synchronously between two awaits; each action    *)
(* below is one such synchronous stretch.                                  *)
(***************************************************************************)
EXTENDS Integers, Sequences, FiniteSets, TLC

\* ------------------------------------------------------------------ bounds
MaxDocs == 2      \* documents a collection may hold before ingestion stops
MaxClock == 1     \* Date.now() ranges over 0..MaxClock milliseconds
MaxElapsed == 1   \* performance.now() - startTime ranges over 0..MaxElapsed

Procs == {"h1", "h2"}          \* concurrently running request handlers
Suffixes == {"r1", "r2"}       \* outcomes of Math.random().toString(36).substr(2, 9)

\* ------------------------------------------------------- JavaScript values
Undefined == [ty |-> "undefined"]
Str(s) == [ty |-> "string", s |-> s]
Arr(a) == [ty |-> "array", a |-> a]
Obj == [ty |-> "object"]

\* ToBoolean: undefined and "" are falsy; arrays, objects and non-empty strings are truthy
Truthy(v) == CASE v.ty = "undefined" -> FALSE
               [] v.ty = "string" -> v.s # <<>>
               [] OTHER -> TRUE

IsArray(v) == v.ty = "array"

Range(s) == {s[i] : i \in DOMAIN s}

\* ------------------------------------------------------------ JSON on disk
LB == [t |-> "["]
RB == [t |-> "]"]
ObjTok == [t |-> "{}"]
JunkTok == [t |-> "junk"]
DocTok(d) == [t |-> "doc", v |-> d]

\* a property whose value is undefined is left out of the text
MetaToJSON(m) ==
  IF "category" \in DOMAIN m /\ m.category.ty = "undefined"
  THEN [createdAt |-> m.createdAt, length |-> m.length]
  ELSE m

\* (variant: the embedding is not written out)
DocToJSON_NoEmbedding(d) ==
  [id |-> d.id, text |-> d.text, embedding |-> Arr(<<>>), metadata |-> MetaToJSON(d.metadata)]

DocToJSON(d) ==
  [id |-> d.id, text |-> d.text, embedding |-> d.embedding, metadata |-> MetaToJSON(d.metadata)]

\* (variant: the documents are written out last to first)
JSONstringify_Reversed(a) ==
  <<LB>> \o [i \in 1..Len(a) |-> DocTok(DocToJSON(a[Len(a) + 1 - i]))] \o <<RB>>

\* JSON.stringify(documents, null, 2)
JSONstringify(a) ==
  <<LB>> \o [i \in 1..Len(a) |-> DocTok(DocToJSON(a[i]))] \o <<RB>>

IsArrayText(text) ==
  /\ Len(text) >= 2
  /\ text[1] = LB
  /\ text[Len(text)] = RB
  /\ \A i \in 2..(Len(text) - 1) : text[i].t = "doc"

\* texts JSON.parse accepts: an array of documents, or another JSON value
Parses(text) == IsArrayText(text) \/ text = <<ObjTok>>

JSONparse(text) ==
  IF IsArrayText(text)
  THEN Arr([i \in 1..(Len(text) - 2) |-> text[i + 1].v])
  ELSE Obj

\* doc.metadata.category of a document read back from the file
Category(m) == IF "category" \in DOMAIN m THEN m.category ELSE Undefined

\* ------------------------------------------------------------ JSONStorage
EmptyFile == [st |-> "ok", text |-> JSONstringify(<<>>)]

\* constructor / ensureDataDirectory: an absent file is created holding [],
\* an existing one is left alone
EnsureDataDirectory(f) == IF f.st = "missing" THEN EmptyFile ELSE f

\* getAllDocuments: any exception of readFileSync or JSON.parse gives []
GetAllDocuments(f) ==
  IF f.st # "ok" THEN Arr(<<>>)
  ELSE IF ~Parses(f.text) THEN Arr(<<>>)
  ELSE JSONparse(f.text)

\* Date.now().toString() + Math.random().toString(36).substr(2, 9)
GenId(time, rnd) == [time |-> time, rnd |-> rnd]

\* the object addDocument builds: { ...doc, id }
NewDoc(doc, time, rnd) ==
  [id |-> GenId(time, rnd), text |-> doc.text, embedding |-> doc.embedding,
   metadata |-> doc.metadata]

\* fs.writeFileSync that completes: a missing file is created
WriteFile(f, text) ==
  [st |-> IF f.st = "missing" THEN "ok" ELSE f.st, text |-> text]

\* fs.writeFileSync cut short after the open truncated the file: the file holds
\* nothing, or an incomplete leading part of the text
Truncations(text) == {SubSeq(text, 1, k) : k \in 0..1}

RECURSIVE SumTo(_, _)
\* f[1] + ... + f[k]
SumTo(f, k) == IF k = 0 THEN 0 ELSE SumTo(f, k - 1) + f[k]

\* [...new Set(s)]: the distinct elements of s, in the order they first occur
RECURSIVE SetOf(_)
SetOf(s) ==
  IF s = <<>> THEN <<>>
  ELSE LET front == SetOf(SubSeq(s, 1, Len(s) - 1))
       IN IF s[Len(s)] \in Range(front) THEN front ELSE Append(front, s[Len(s)])

\* the statistics getStats computes from the array it read; the average is the
\* fraction num / den
StatsOf(documents) ==
  LET totalDocs == Len(documents)
      lengths == [i \in 1..totalDocs |-> Len(documents[i].text.s)]
      categories == [i \in 1..totalDocs |-> Category(documents[i].metadata)]
  IN [threw |-> FALSE,
      totalDocuments |-> totalDocs,
      totalVectors |-> totalDocs,
      averageTextLength |-> IF totalDocs > 0
                            THEN [num |-> SumTo(lengths, totalDocs), den |-> totalDocs]
                            ELSE [num |-> 0, den |-> 1],
      categories |-> SetOf(SelectSeq(categories, Truthy))]

\* getStats: on a value that is not an array documents.map throws
GetStats(f) ==
  LET documents == GetAllDocuments(f) IN
  IF documents.ty # "array"
  THEN [threw |-> TRUE, totalDocuments |-> 0, totalVectors |-> 0,
        averageTextLength |-> [num |-> 0, den |-> 1], categories |-> <<>>]
  ELSE StatsOf(documents.a)

\* ---------------------------------------------------------- similarity
\* A similarity is kept exactly: dot / sqrt(n) with n = |a|^2 * |b|^2, or NaN.
\* Where the exact value is 1 or -1, `off` tells how the double the code
\* computes lies to it: 1 beyond it (1.0000000000000002), -1 inside
\* (0.9999999999999998), 0 on it.  Elsewhere off is 0: the rounding error is
\* too small to change a comparison between the values that occur here.
Num(k) == [ty |-> "number", n |-> k]
NaN == [nan |-> TRUE, dot |-> 0, n |-> 1, off |-> 0]
Sim(dot, n) == [nan |-> FALSE, dot |-> dot, n |-> n, off |-> 0]

\* Math.sqrt(n) against the real square root, n = 1..4, in IEEE 754 doubles:
\* sqrt(2) is rounded up (1.4142135623730951), sqrt(3) down (1.7320508075688772)
SqrtRounding == <<0, 1, -1, 0>>

\* dotProduct / (magnitudeA * magnitudeB) in doubles.  The exact value is 1 or
\* -1 only for parallel vectors, here of equal magnitude m = sqrt(n2): m * m is
\* 2.0000000000000004 for n2 = 2 and 2.9999999999999996 for n2 = 3, so the
\* quotient falls inside 1 for n2 = 2 and beyond 1 for n2 = 3.
Quotient(dotProduct, magnitudeA2, magnitudeB2) ==
  [nan |-> FALSE, dot |-> dotProduct, n |-> magnitudeA2 * magnitudeB2,
   off |-> IF dotProduct * dotProduct = magnitudeA2 * magnitudeB2 /\ magnitudeA2 = magnitudeB2
           THEN -SqrtRounding[magnitudeA2] ELSE 0]

SumSquares(v) == SumTo([i \in 1..Len(v) |-> v[i] * v[i]], Len(v))

\* cosineSimilarity of the search route: no length check; vecB[i] is undefined
\* beyond the end of vecB and a * undefined is NaN
RouteCosineSimilarity(vecA, vecB) ==
  LET common == IF Len(vecA) <= Len(vecB) THEN Len(vecA) ELSE Len(vecB)
      dotProduct == SumTo([i \in 1..common |-> vecA[i] * vecB[i]], common)
      dotIsNaN == Len(vecA) > Len(vecB)
      magnitudeA2 == SumSquares(vecA)
      magnitudeB2 == SumSquares(vecB)
  IN IF magnitudeA2 = 0 \/ magnitudeB2 = 0 THEN Sim(0, 1)
     ELSE IF dotIsNaN THEN NaN
     ELSE Quotient(dotProduct, magnitudeA2, magnitudeB2)

\* Math.max(-1, Math.min(1, similarity))
Clamp(similarity) ==
  IF ~similarity.nan /\ similarity.off = 1 THEN [similarity EXCEPT !.off = 0] ELSE similarity

Threw(message) == [threw |-> TRUE, message |-> message]
Returned(value) == [threw |-> FALSE, value |-> value]

\* (variant: the dot product is divided by the first vector's magnitude, squared)
EmbeddingServiceCosineSimilarity_NormByA(vecA, vecB) ==
  IF Len(vecA) # Len(vecB) THEN Threw("Vectors must have the same dimensions")
  ELSE LET dotProduct == SumTo([i \in 1..Len(vecA) |-> vecA[i] * vecB[i]], Len(vecA))
           magnitudeA2 == SumSquares(vecA)
           magnitudeB2 == SumSquares(vecB)
       IN IF magnitudeA2 = 0 \/ magnitudeB2 = 0 THEN Returned(Sim(0, 1))
          ELSE Returned(Clamp(Quotient(dotProduct, magnitudeA2, magnitudeA2)))

\* EmbeddingService.cosineSimilarity: length check, zero magnitude gives 0, clamp
EmbeddingServiceCosineSimilarity(vecA, vecB) ==
  IF Len(vecA) # Len(vecB) THEN Threw("Vectors must have the same dimensions")
  ELSE LET dotProduct == SumTo([i \in 1..Len(vecA) |-> vecA[i] * vecB[i]], Len(vecA))
           magnitudeA2 == SumSquares(vecA)
           magnitudeB2 == SumSquares(vecB)
       IN IF magnitudeA2 = 0 \/ magnitudeB2 = 0 THEN Returned(Sim(0, 1))
          ELSE Returned(Clamp(Quotient(dotProduct, magnitudeA2, magnitudeB2)))

Abs(k) == IF k < 0 THEN -k ELSE k

\* the place of a value next to the exact value it rounds: off, with the value's sign
Fine(x) == IF x.dot < 0 THEN -x.off ELSE x.off

\* x < y for two numbers (dot / sqrt(n) is monotone in dot * |dot| / n)
SimLess(x, y) ==
  /\ ~x.nan /\ ~y.nan
  /\ \/ x.dot * Abs(x.dot) * y.n < y.dot * Abs(y.dot) * x.n
     \/ x.dot * Abs(x.dot) * y.n = y.dot * Abs(y.dot) * x.n /\ Fine(x) < Fine(y)
SimEq(x, y) ==
  /\ ~x.nan /\ ~y.nan
  /\ x.dot * Abs(x.dot) * y.n = y.dot * Abs(y.dot) * x.n
  /\ Fine(x) = Fine(y)

\* (variant: the comparator (a, b) => a.similarity - b.similarity)
CompareFn_Ascending(a, b) ==
  CASE a.similarity.nan \/ b.similarity.nan -> "nan"
    [] SimLess(a.similarity, b.similarity) -> "neg"
    [] SimLess(b.similarity, a.similarity) -> "pos"
    [] OTHER -> "zero"

\* the comparator (a, b) => b.similarity - a.similarity
CompareFn(a, b) ==
  CASE a.similarity.nan \/ b.similarity.nan -> "nan"
    [] SimLess(a.similarity, b.similarity) -> "pos"
    [] SimLess(b.similarity, a.similarity) -> "neg"
    [] OTHER -> "zero"

\* Array.prototype.sort is stable: x goes before the first element it must precede
RECURSIVE InsertSorted(_, _)
InsertSorted(x, s) ==
  IF s = <<>> THEN <<x>>
  ELSE IF CompareFn(Head(s), x) = "pos" THEN <<x>> \o s
  ELSE <<Head(s)>> \o InsertSorted(x, Tail(s))

RECURSIVE StableSort(_)
StableSort(s) ==
  IF s = <<>> THEN <<>>
  ELSE InsertSorted(s[Len(s)], StableSort(SubSeq(s, 1, Len(s) - 1)))

Reorderings(s) ==
  { [i \in 1..Len(s) |-> s[f[i]]] :
      f \in {g \in [1..Len(s) -> 1..Len(s)] : \A i, j \in 1..Len(s) : i # j => g[i] # g[j]} }

\* a NaN result of the comparator counts as 0; the comparator is then consistent
\* only if the numbers among the similarities are all equal
ConsistentComparator(s) ==
  \/ \A i \in 1..Len(s) : ~s[i].similarity.nan
  \/ \A i, j \in 1..Len(s) :
        (~s[i].similarity.nan /\ ~s[j].similarity.nan) => SimEq(s[i].similarity, s[j].similarity)

\* results.sort(...): with an inconsistent comparator the order is implementation-defined
SortOutcomes(s) ==
  IF ConsistentComparator(s) THEN {StableSort(s)} ELSE Reorderings(s)

\* Array.prototype.slice(0, end)
Slice(s, end) ==
  LET len == Len(s)
      final == IF end < 0 THEN (IF len + end < 0 THEN 0 ELSE len + end)
               ELSE (IF end < len THEN end ELSE len)
  IN SubSeq(s, 1, final)

DefaultLimit == 10

\* const { ..., limit = 10 } = body
LimitOf(body) == IF body.limit.ty = "undefined" THEN DefaultLimit ELSE body.limit.n

\* documents.map(...): one result per document, in corpus order (pos is the
\* document's place in the corpus)
ScoreAll(queryEmbedding, documents) ==
  [i \in 1..Len(documents) |->
     [id |-> documents[i].id, pos |-> i,
      similarity |-> RouteCosineSimilarity(queryEmbedding, documents[i].embedding.a)]]

\* (variant: a clock that may go back between two readings)
ElapsedTimes_Unordered(n) == [1..n -> 0..MaxElapsed]

\* readings of performance.now() - startTime at the scoring of documents 1..n:
\* the clock is monotonic, so they do not decrease
ElapsedTimes(n) ==
  {e \in [1..n -> 0..MaxElapsed] : \A i \in 1..(n - 1) : e[i] <= e[i + 1]}

\* the processingTime each result of documents.map carries
Timed(results, elapsed) ==
  [i \in 1..Len(results) |->
     [id |-> results[i].id, pos |-> results[i].pos, similarity |-> results[i].similarity,
      processingTime |-> elapsed[i]]]

\* sortedResults[0]?.processingTime || 0
OverallTime(sortedResults) ==
  IF sortedResults = <<>> THEN 0 ELSE sortedResults[1].processingTime

\* ------------------------------------------------------------------ state
VARIABLES
  file,     \* data/documents.json: [st, text]
  now,      \* the wall clock, in milliseconds
  pc,       \* per handler: "idle", "read" (addDocument awaits its read), "added"
            \* (addDocument returned), "get" (GET awaits its getAllDocuments)
  docs,     \* per handler: the local `documents` of addDocument
  newDoc,   \* per handler: the local `newDoc` of addDocument
  resp,     \* the response sent by the last step, NoResp if it sent none
  missed,   \* per handler: handlers whose writes completed since its read, and
            \* "env" if the file was changed from outside during a GET (history)
  sreq,     \* the body of the last search request
  sresp,    \* the response of POST /api/search to it
  bres,     \* the last bruteForceSearch call: its arguments and its outcome
  vecA,     \* first argument of the cosineSimilarity call under study
  vecB,     \* its second argument
  out,      \* which cosineSimilarity was called last, and its outcome
  es,       \* the browser's embeddingService: model (loaded or null), isLoaded,
            \* backendInitialized, and the use.load() calls invoked and
            \* rejected so far (history)
  ui,       \* SearchInterface state: loading, modelStatus, searchError
  task      \* per client task: where it is suspended, and which caller of
            \* loadModel it resumes ("from")

storeVars == <<file, now, pc, docs, newDoc, resp, missed>>
searchVars == <<sreq, sresp, bres>>
vecVars == <<vecA, vecB, out>>
clientVars == <<es, ui, task>>
vars ==
  <<file, now, pc, docs, newDoc, resp, missed, sreq, sresp, bres, vecA, vecB, out,
    es, ui, task>>

\* request bodies of POST /api/data
Requests ==
  { [text |-> Str(<<"a">>), category |-> Undefined, embedding |-> Arr(<<1, 0>>)],
    [text |-> Str(<<"b", "b">>), category |-> Str(<<"c">>), embedding |-> Arr(<<>>)],
    [text |-> Str(<<>>), category |-> Undefined, embedding |-> Arr(<<1, 0>>)],
    [text |-> Undefined, category |-> Str(<<"c">>), embedding |-> Arr(<<1, 0>>)],
    [text |-> Str(<<"a">>), category |-> Undefined, embedding |-> Undefined],
    [text |-> Str(<<"a">>), category |-> Undefined, embedding |-> Str(<<"x">>)] }

NoDoc == [none |-> TRUE]
NoResp == [status |-> 0]
NoSearch == [query |-> Undefined, queryEmbedding |-> Undefined, limit |-> Undefined]
NoCall == [fn |-> "none"]
NoBrute == [called |-> FALSE]

\* client tasks: the mount effect of SearchInterface, its handleSearch, and
\* another component (VectorVisualization, DataMonitor) calling
\* embeddingService.generateEmbedding
Tasks == {"preload", "search", "embed"}

\* model = null; isLoaded = false; backendInitialized = false
NewService ==
  [model |-> FALSE, isLoaded |-> FALSE, backendInitialized |-> FALSE,
   loads |-> 0, failed |-> 0]

\* useState(false), useState('idle'), useState(null)
InitialUI == [loading |-> FALSE, modelStatus |-> "idle", searchError |-> "null"]

NoTasks ==
  [t \in Tasks |-> [pc |-> IF t = "preload" THEN "unmounted" ELSE "idle",
                    from |-> "none"]]

Init ==
  /\ file = EnsureDataDirectory([st |-> "missing", text |-> <<>>])
  /\ now = 0
  /\ pc = [p \in Procs |-> "idle"]
  /\ docs = [p \in Procs |-> Arr(<<>>)]
  /\ newDoc = [p \in Procs |-> NoDoc]
  /\ resp = NoResp
  /\ missed = [p \in Procs |-> {}]
  /\ sreq = NoSearch
  /\ sresp = NoResp
  /\ bres = NoBrute
  /\ vecA = <<>>
  /\ vecB = <<>>
  /\ out = NoCall
  /\ es = NewService
  /\ ui = InitialUI
  /\ task = NoTasks

\* ------------------------------------------------- POST /api/data (ingest)
\* (variant: only a missing text is refused, "" passes)
TextOk_OnlyMissing(r) == r.text.ty # "undefined"

TextOk(r) == Truthy(r.text)
EmbeddingOk(r) == Truthy(r.embedding) /\ IsArray(r.embedding)

\* the argument the route passes to storage.addDocument
DocOf(r, time) ==
  [text |-> r.text, embedding |-> r.embedding,
   metadata |-> [createdAt |-> time, category |-> r.category, length |-> Len(r.text.s)]]

\* the route rejects the body: nothing is read or written
IngestReject(p, r) ==
  /\ pc[p] = "idle"
  /\ ~TextOk(r) \/ ~EmbeddingOk(r)
  /\ resp' = [status |-> 400,
              error |-> IF ~TextOk(r) THEN "Text is required"
                        ELSE "Embedding is required and must be an array"]
  /\ UNCHANGED <<file, now, pc, docs, newDoc, missed>>
  /\ UNCHANGED searchVars
  /\ UNCHANGED vecVars
  /\ UNCHANGED clientVars

\* the route accepts the body and calls addDocument, which runs up to its
\* first await: getAllDocuments has read the file
IngestBegin(p, r) ==
  /\ pc[p] = "idle"
  /\ TextOk(r) /\ EmbeddingOk(r)
  /\ LET documents == GetAllDocuments(file) IN
       /\ documents.ty = "array" => Len(documents.a) < MaxDocs
       /\ docs' = [docs EXCEPT ![p] = documents]
  /\ newDoc' = [newDoc EXCEPT ![p] = DocOf(r, now)]
  /\ resp' = NoResp
  /\ pc' = [pc EXCEPT ![p] = "read"]
  /\ missed' = [missed EXCEPT ![p] = {}]
  /\ UNCHANGED <<file, now>>
  /\ UNCHANGED searchVars
  /\ UNCHANGED vecVars
  /\ UNCHANGED clientVars

\* (variant: the collection is read again at the time of the write)
AddWrite_Reread(p) ==
  /\ pc[p] = "read"
  /\ IF docs[p].ty # "array"
       THEN /\ resp' = [status |-> 500, error |-> "Failed to add data"]
            /\ pc' = [pc EXCEPT ![p] = "idle"]
            /\ newDoc' = [newDoc EXCEPT ![p] = NoDoc]
            /\ missed' = [missed EXCEPT ![p] = {}]
            /\ UNCHANGED file
       ELSE /\ file.st # "unreadable"
            /\ GetAllDocuments(file).ty = "array"
            /\ \E rnd \in Suffixes :
                 LET d == NewDoc(newDoc[p], now, rnd)
                     documents == Append(GetAllDocuments(file).a, d)
                 IN /\ newDoc' = [newDoc EXCEPT ![p] = d]
                    /\ file' = WriteFile(file, JSONstringify(documents))
            /\ pc' = [pc EXCEPT ![p] = "added"]
            /\ missed' = [q \in Procs |->
                            IF q # p /\ pc[q] = "read" THEN missed[q] \cup {p} ELSE missed[q]]
            /\ resp' = NoResp
  /\ docs' = [docs EXCEPT ![p] = Arr(<<>>)]
  /\ UNCHANGED now
  /\ UNCHANGED searchVars
  /\ UNCHANGED vecVars
  /\ UNCHANGED clientVars

\* addDocument resumes: id, push, saveDocuments (writeFileSync completes).  On a
\* value that is not an array documents.push throws and the route answers 500.
AddWrite(p) ==
  /\ pc[p] = "read"
  /\ IF docs[p].ty # "array"
       THEN /\ resp' = [status |-> 500, error |-> "Failed to add data"]
            /\ pc' = [pc EXCEPT ![p] = "idle"]
            /\ newDoc' = [newDoc EXCEPT ![p] = NoDoc]
            /\ missed' = [missed EXCEPT ![p] = {}]
            /\ UNCHANGED file
       ELSE /\ file.st # "unreadable"
            /\ \E rnd \in Suffixes :
                 LET d == NewDoc(newDoc[p], now, rnd)
                     documents == Append(docs[p].a, d)
                 IN /\ newDoc' = [newDoc EXCEPT ![p] = d]
                    /\ file' = WriteFile(file, JSONstringify(documents))
            /\ pc' = [pc EXCEPT ![p] = "added"]
            /\ missed' = [q \in Procs |->
                            IF q # p /\ pc[q] = "read" THEN missed[q] \cup {p} ELSE missed[q]]
            /\ resp' = NoResp
  /\ docs' = [docs EXCEPT ![p] = Arr(<<>>)]
  /\ UNCHANGED now
  /\ UNCHANGED searchVars
  /\ UNCHANGED vecVars
  /\ UNCHANGED clientVars

\* writeFileSync throws (EACCES before the open, ENOSPC or EIO after it truncated
\* the file); the route answers 500
AddWriteFail(p) ==
  /\ pc[p] = "read"
  /\ docs[p].ty = "array"
  /\ \E rnd \in Suffixes :
       LET text == JSONstringify(Append(docs[p].a, NewDoc(newDoc[p], now, rnd)))
       IN \/ file' = file
          \/ \E t \in Truncations(text) : file' = WriteFile(file, t)
  /\ resp' = [status |-> 500, error |-> "Failed to add data"]
  /\ pc' = [pc EXCEPT ![p] = "idle"]
  /\ docs' = [docs EXCEPT ![p] = Arr(<<>>)]
  /\ newDoc' = [newDoc EXCEPT ![p] = NoDoc]
  /\ missed' = [missed EXCEPT ![p] = {}]
  /\ UNCHANGED now
  /\ UNCHANGED searchVars
  /\ UNCHANGED vecVars
  /\ UNCHANGED clientVars

\* the process dies inside writeFileSync and is started again: the file keeps
\* what had been written, every handler is gone, the constructor runs
AddWriteCrash(p) ==
  /\ pc[p] = "read"
  /\ docs[p].ty = "array"
  /\ \E rnd \in Suffixes :
       LET text == JSONstringify(Append(docs[p].a, NewDoc(newDoc[p], now, rnd)))
       IN \E t \in Truncations(text) : file' = EnsureDataDirectory(WriteFile(file, t))
  /\ pc' = [q \in Procs |-> "idle"]
  /\ docs' = [q \in Procs |-> Arr(<<>>)]
  /\ newDoc' = [q \in Procs |-> NoDoc]
  /\ resp' = NoResp
  /\ missed' = [q \in Procs |-> {}]
  /\ UNCHANGED now
  /\ UNCHANGED searchVars
  /\ UNCHANGED vecVars
  /\ UNCHANGED clientVars

\* the route resumes after addDocument: getStats, then the 200 response
IngestFinish(p) ==
  /\ pc[p] = "added"
  /\ LET stats == GetStats(file) IN
       resp' = IF stats.threw THEN [status |-> 500, error |-> "Failed to add data"]
               ELSE [status |-> 200, id |-> newDoc[p].id,
                     totalDocuments |-> stats.totalDocuments]
  /\ pc' = [pc EXCEPT ![p] = "idle"]
  /\ newDoc' = [newDoc EXCEPT ![p] = NoDoc]
  /\ missed' = [missed EXCEPT ![p] = {}]
  /\ UNCHANGED <<file, now, docs>>
  /\ UNCHANGED searchVars
  /\ UNCHANGED vecVars
  /\ UNCHANGED clientVars

\* a millisecond passes
Tick ==
  /\ now < MaxClock
  /\ now' = now + 1
  /\ resp' = NoResp
  /\ UNCHANGED <<file, pc, docs, newDoc, missed>>
  /\ UNCHANGED searchVars
  /\ UNCHANGED vecVars
  /\ UNCHANGED clientVars

Next ==
  \/ \E p \in Procs, r \in Requests : IngestReject(p, r)
  \/ \E p \in Procs, r \in Requests : IngestBegin(p, r)
  \/ \E p \in Procs : AddWrite(p)
  \/ \E p \in Procs : AddWriteFail(p)
  \/ \E p \in Procs : AddWriteCrash(p)
  \/ \E p \in Procs : IngestFinish(p)
  \/ Tick

\* POST /api/data receiving the body r
Ingest(p, r) == IngestReject(p, r) \/ IngestBegin(p, r)

Spec == Init /\ [][Next]_vars

\* addDocument calls one at a time (the single-writer discipline): a call starts
\* only when no other call is between its read and its write
NextSerial ==
  \/ \E p \in Procs, r \in Requests : IngestReject(p, r)
  \/ \E p \in Procs, r \in Requests : (\A q \in Procs : pc[q] # "read") /\ IngestBegin(p, r)
  \/ \E p \in Procs : AddWrite(p)
  \/ \E p \in Procs : AddWriteFail(p)
  \/ \E p \in Procs : AddWriteCrash(p)
  \/ \E p \in Procs : IngestFinish(p)
  \/ Tick

SpecSerial == Init /\ [][NextSerial]_vars

\* addDocument calls one at a time over storage that does not fail: no write
\* throws and the process does not die
NextSerialNoFail ==
  \/ \E p \in Procs, r \in Requests : IngestReject(p, r)
  \/ \E p \in Procs, r \in Requests : (\A q \in Procs : pc[q] # "read") /\ IngestBegin(p, r)
  \/ \E p \in Procs : AddWrite(p)
  \/ \E p \in Procs : IngestFinish(p)
  \/ Tick

SpecSerialNoFail == Init /\ [][NextSerialNoFail]_vars

\* concurrent handlers over storage that does not fail: no write throws and
\* the process does not die
NextNoFail ==
  \/ \E p \in Procs, r \in Requests : IngestReject(p, r)
  \/ \E p \in Procs, r \in Requests : IngestBegin(p, r)
  \/ \E p \in Procs : AddWrite(p)
  \/ \E p \in Procs : IngestFinish(p)
  \/ Tick

SpecNoFail == Init /\ [][NextNoFail]_vars

\* request bodies whose embeddings differ in length
DimRequests ==
  { [text |-> Str(<<"a">>), category |-> Undefined, embedding |-> Arr(<<1, 0>>)],
    [text |-> Str(<<"a">>), category |-> Undefined, embedding |-> Arr(<<1, 0, 0>>)],
    [text |-> Str(<<"a">>), category |-> Undefined, embedding |-> Arr(<<0, 1>>)],
    [text |-> Str(<<"a">>), category |-> Undefined, embedding |-> Undefined] }

\* the same handlers, one addDocument call at a time over storage that does
\* not fail, receiving those bodies
NextDims ==
  \/ \E p \in Procs, r \in DimRequests : IngestReject(p, r)
  \/ \E p \in Procs, r \in DimRequests : (\A q \in Procs : pc[q] # "read") /\ IngestBegin(p, r)
  \/ \E p \in Procs : AddWrite(p)
  \/ \E p \in Procs : IngestFinish(p)
  \/ Tick

SpecDims == Init /\ [][NextDims]_vars

\* something other than the store changes the file: it is deleted, made
\* unreadable, or replaced by a text that is not a JSON array of documents
EnvDamage ==
  /\ file' \in { [st |-> "missing", text |-> <<>>],
                 [st |-> "unreadable", text |-> file.text],
                 [st |-> "ok", text |-> <<JunkTok>>],
                 [st |-> "ok", text |-> <<ObjTok>>] }
  /\ file' # file
  /\ resp' = NoResp
  /\ missed' = [q \in Procs |-> IF pc[q] = "get" THEN missed[q] \cup {"env"} ELSE missed[q]]
  /\ UNCHANGED <<now, pc, docs, newDoc>>
  /\ UNCHANGED searchVars
  /\ UNCHANGED vecVars
  /\ UNCHANGED clientVars

NextEnv == Next \/ EnvDamage

SpecEnv == Init /\ [][NextEnv]_vars

\* ---------------------------------------------------------- GET /api/data
RecentCount == 5       \* documents.slice(-5)
PreviewLength == 100   \* doc.text.substring(0, 100)

\* Array.prototype.slice(start) with a negative start: the last -start elements
SliceFrom(s, start) ==
  LET from == IF Len(s) + start < 0 THEN 0 ELSE Len(s) + start
  IN SubSeq(s, from + 1, Len(s))

\* doc.text.substring(0, 100) + (doc.text.length > 100 ? '...' : '')
Preview(text) ==
  IF Len(text.s) > PreviewLength
  THEN Str(SubSeq(text.s, 1, PreviewLength) \o <<".", ".", ".">>)
  ELSE text

\* (variant: a read that finds no collection writes an empty one)
DataGetBegin_Repair(p) ==
  /\ pc[p] = "idle"
  /\ docs' = [docs EXCEPT ![p] = GetAllDocuments(file)]
  /\ file' = IF file.st = "ok" /\ IsArrayText(file.text) THEN file ELSE EmptyFile
  /\ pc' = [pc EXCEPT ![p] = "get"]
  /\ missed' = [missed EXCEPT ![p] = {}]
  /\ resp' = NoResp
  /\ UNCHANGED <<now, newDoc>>
  /\ UNCHANGED searchVars
  /\ UNCHANGED vecVars
  /\ UNCHANGED clientVars

\* the handler calls getAllDocuments, which reads the file, and awaits it
DataGetBegin(p) ==
  /\ pc[p] = "idle"
  /\ docs' = [docs EXCEPT ![p] = GetAllDocuments(file)]
  /\ pc' = [pc EXCEPT ![p] = "get"]
  /\ missed' = [missed EXCEPT ![p] = {}]
  /\ resp' = NoResp
  /\ UNCHANGED <<file, now, newDoc>>
  /\ UNCHANGED searchVars
  /\ UNCHANGED vecVars
  /\ UNCHANGED clientVars

\* the handler resumes: getStats reads the file again, then the response; on a
\* value that is not an array getStats (and documents.slice) throws
DataGetFinish(p) ==
  /\ pc[p] = "get"
  /\ LET stats == GetStats(file) IN
       resp' = IF stats.threw \/ docs[p].ty # "array"
               THEN [status |-> 500, error |-> "Failed to fetch data"]
               ELSE [status |-> 200, stats |-> stats,
                     recentDocuments |->
                       LET recent == SliceFrom(docs[p].a, -RecentCount)
                       IN [i \in 1..Len(recent) |->
                             [id |-> recent[i].id, text |-> Preview(recent[i].text),
                              metadata |-> recent[i].metadata]]]
  /\ pc' = [pc EXCEPT ![p] = "idle"]
  /\ docs' = [docs EXCEPT ![p] = Arr(<<>>)]
  /\ missed' = [missed EXCEPT ![p] = {}]
  /\ UNCHANGED <<file, now, newDoc>>
  /\ UNCHANGED searchVars
  /\ UNCHANGED vecVars
  /\ UNCHANGED clientVars

\* documents an earlier run stored: texts of two lengths, with no category, an
\* empty one, or one of two categories
StatsRequests ==
  { [text |-> Str(t), category |-> c, embedding |-> Arr(<<1, 0>>)] :
      t \in {<<"a">>, <<"b", "b">>},
      c \in {Undefined, Str(<<>>), Str(<<"c">>), Str(<<"d">>)} }

StatsCorpora ==
  UNION { { [i \in 1..k |-> NewDoc(DocOf(rs[i], i), i, "r1")] : rs \in [1..k -> StatsRequests] } :
          k \in 0..MaxDocs }

InitStats ==
  /\ \E c \in StatsCorpora : file = [st |-> "ok", text |-> JSONstringify(c)]
  /\ now = 0
  /\ pc = [p \in Procs |-> "idle"]
  /\ docs = [p \in Procs |-> Arr(<<>>)]
  /\ newDoc = [p \in Procs |-> NoDoc]
  /\ resp = NoResp
  /\ missed = [p \in Procs |-> {}]
  /\ sreq = NoSearch
  /\ sresp = NoResp
  /\ bres = NoBrute
  /\ vecA = <<>>
  /\ vecB = <<>>
  /\ out = NoCall
  /\ es = NewService
  /\ ui = InitialUI
  /\ task = NoTasks

NextStats ==
  \/ \E p \in Procs : DataGetBegin(p)
  \/ \E p \in Procs : DataGetFinish(p)
  \/ EnvDamage

SpecStats == InitStats /\ [][NextStats]_vars

\* ------------------------------------------------------ POST /api/search
MaxLimit == 2    \* limits range over -1..MaxLimit, or are left out

\* embeddings of stored documents and of queries
DocVectors == {<<1, 0>>, <<0, 1>>, <<1, 1>>, <<-1, 0>>, <<0, 0>>, <<1, 0, 0>>, <<>>}
QueryVectors == {<<1, 0>>, <<0, 1>>, <<0, 0>>, <<1, 0, 0>>, <<1>>}

SearchRequests ==
  { [query |-> Str(<<"q">>), queryEmbedding |-> Arr(v), limit |-> l] :
      v \in QueryVectors, l \in {Undefined} \cup {Num(k) : k \in (-1)..MaxLimit} }
  \cup { [query |-> Undefined, queryEmbedding |-> Arr(<<1, 0>>), limit |-> Undefined],
         [query |-> Str(<<>>), queryEmbedding |-> Arr(<<1, 0>>), limit |-> Undefined],
         [query |-> Str(<<"q">>), queryEmbedding |-> Undefined, limit |-> Undefined],
         [query |-> Str(<<"q">>), queryEmbedding |-> Str(<<"x">>), limit |-> Undefined] }

\* (variant: the handler writes an empty collection back)
SearchRoute_Rewrites(body) ==
  /\ sreq' = body
  /\ IF ~Truthy(body.query)
       THEN sresp' = [status |-> 400, error |-> "Query is required"]
     ELSE IF ~Truthy(body.queryEmbedding) \/ ~IsArray(body.queryEmbedding)
       THEN sresp' = [status |-> 400, error |-> "Query embedding is required and must be an array"]
     ELSE LET documents == GetAllDocuments(file) IN
       IF documents.ty # "array"
         THEN sresp' = [status |-> 500, error |-> "Search failed"]
       ELSE \E elapsed \in ElapsedTimes(Len(documents.a)) :
            \E sorted \in SortOutcomes(Timed(ScoreAll(body.queryEmbedding.a, documents.a), elapsed)) :
              LET sortedResults == Slice(sorted, LimitOf(body))
              IN sresp' = [status |-> 200, results |-> sortedResults,
                           totalResults |-> Len(sortedResults),
                           processingTime |-> OverallTime(sortedResults)]
  /\ UNCHANGED bres
  /\ file' = EmptyFile
  /\ UNCHANGED <<now, pc, docs, newDoc, resp, missed>>
  /\ UNCHANGED vecVars
  /\ UNCHANGED clientVars

\* the whole handler: the file is read once, synchronously, and the response
\* depends on nothing else
SearchRoute(body) ==
  /\ sreq' = body
  /\ IF ~Truthy(body.query)
       THEN sresp' = [status |-> 400, error |-> "Query is required"]
     ELSE IF ~Truthy(body.queryEmbedding) \/ ~IsArray(body.queryEmbedding)
       THEN sresp' = [status |-> 400, error |-> "Query embedding is required and must be an array"]
     ELSE LET documents == GetAllDocuments(file) IN
       IF documents.ty # "array"
         THEN sresp' = [status |-> 500, error |-> "Search failed"]
       ELSE \E elapsed \in ElapsedTimes(Len(documents.a)) :
            \E sorted \in SortOutcomes(Timed(ScoreAll(body.queryEmbedding.a, documents.a), elapsed)) :
              LET sortedResults == Slice(sorted, LimitOf(body))
              IN sresp' = [status |-> 200, results |-> sortedResults,
                           totalResults |-> Len(sortedResults),
                           processingTime |-> OverallTime(sortedResults)]
  /\ UNCHANGED bres
  /\ UNCHANGED storeVars
  /\ UNCHANGED vecVars
  /\ UNCHANGED clientVars

\* VectorSearch.bruteForceSearch(queryEmbedding, documents, limit = 10): the
\* first document whose embedding differs in length from the query makes
\* embeddingService.cosineSimilarity throw, and the call rejects
BruteForceSearch(queryEmbedding, documents, limit) ==
  /\ LET scores == [i \in 1..Len(documents) |->
                      EmbeddingServiceCosineSimilarity(queryEmbedding, documents[i].embedding.a)]
     IN IF \E i \in 1..Len(documents) : scores[i].threw
        THEN bres' = [called |-> TRUE, queryEmbedding |-> queryEmbedding, limit |-> limit,
                      threw |-> TRUE, message |-> "Vectors must have the same dimensions"]
        ELSE \E elapsed \in ElapsedTimes(Len(documents)) :
             \E sorted \in SortOutcomes([i \in 1..Len(documents) |->
                                           [id |-> documents[i].id, pos |-> i,
                                            similarity |-> scores[i].value,
                                            processingTime |-> elapsed[i]]]) :
               bres' = [called |-> TRUE, queryEmbedding |-> queryEmbedding, limit |-> limit,
                        threw |-> FALSE,
                        results |-> Slice(sorted, LimitOf([limit |-> limit]))]
  /\ UNCHANGED <<sreq, sresp>>
  /\ UNCHANGED storeVars
  /\ UNCHANGED vecVars
  /\ UNCHANGED clientVars

\* collections an earlier run of the store left in the file
StoredDoc(v, i) ==
  NewDoc(DocOf([text |-> Str(<<"a">>), category |-> Undefined, embedding |-> Arr(v)], i), i, "r1")

Corpora ==
  UNION { { [i \in 1..k |-> StoredDoc(vs[i], i)] : vs \in [1..k -> DocVectors] } : k \in 0..MaxDocs }

InitSearch ==
  /\ \E c \in Corpora : file = [st |-> "ok", text |-> JSONstringify(c)]
  /\ now = 0
  /\ pc = [p \in Procs |-> "idle"]
  /\ docs = [p \in Procs |-> Arr(<<>>)]
  /\ newDoc = [p \in Procs |-> NoDoc]
  /\ resp = NoResp
  /\ missed = [p \in Procs |-> {}]
  /\ sreq = NoSearch
  /\ sresp = NoResp
  /\ bres = NoBrute
  /\ vecA = <<>>
  /\ vecB = <<>>
  /\ out = NoCall
  /\ es = NewService
  /\ ui = InitialUI
  /\ task = NoTasks

\* one search over each stored collection: the answer depends on the file and
\* the body only, not on earlier searches
NextSearch == \E body \in SearchRequests : sreq = NoSearch /\ SearchRoute(body)

SpecSearch == InitSearch /\ [][NextSearch]_vars

\* ------------------------------------- search route and bruteForceSearch
AgreeVectors == {<<1, 0>>, <<0, 1>>, <<1, 1, 1>>, <<1, 0, 0>>}
AgreeQueries == {<<1, 0>>, <<1, 1, 1>>}

AgreeRequests ==
  { [query |-> Str(<<"q">>), queryEmbedding |-> Arr(v), limit |-> l] :
      v \in AgreeQueries, l \in {Undefined} \cup {Num(k) : k \in 1..MaxLimit} }

AgreeCorpora ==
  UNION { { [i \in 1..k |-> StoredDoc(vs[i], i)] : vs \in [1..k -> AgreeVectors] } : k \in 0..MaxDocs }

InitAgree ==
  /\ \E c \in AgreeCorpora : file = [st |-> "ok", text |-> JSONstringify(c)]
  /\ now = 0
  /\ pc = [p \in Procs |-> "idle"]
  /\ docs = [p \in Procs |-> Arr(<<>>)]
  /\ newDoc = [p \in Procs |-> NoDoc]
  /\ resp = NoResp
  /\ missed = [p \in Procs |-> {}]
  /\ sreq = NoSearch
  /\ sresp = NoResp
  /\ bres = NoBrute
  /\ vecA = <<>>
  /\ vecB = <<>>
  /\ out = NoCall
  /\ es = NewService
  /\ ui = InitialUI
  /\ task = NoTasks

\* one search through the route, then bruteForceSearch on the same query
\* embedding, limit and stored documents
NextAgree ==
  \/ \E body \in AgreeRequests : sreq = NoSearch /\ SearchRoute(body)
  \/ /\ sreq # NoSearch
     /\ bres = NoBrute
     /\ BruteForceSearch(sreq.queryEmbedding.a, GetAllDocuments(file).a, sreq.limit)

SpecAgree == InitAgree /\ [][NextAgree]_vars

\* ------------------------------------------------------- cosineSimilarity
MaxDim == 3      \* vectors have 0..MaxDim components, each -1, 0 or 1

RECURSIVE VectorsOfLen(_)
VectorsOfLen(k) ==
  IF k = 0 THEN {<<>>}
  ELSE {Append(v, x) : v \in VectorsOfLen(k - 1), x \in {-1, 0, 1}}

Vectors == UNION {VectorsOfLen(k) : k \in 0..MaxDim}

\* embeddingService.cosineSimilarity(vecA, vecB), as bruteForceSearch calls it
ServiceCosine ==
  /\ out' = [fn |-> "service", res |-> EmbeddingServiceCosineSimilarity(vecA, vecB)]
  /\ UNCHANGED <<vecA, vecB>>
  /\ UNCHANGED <<storeVars, searchVars, clientVars>>

\* cosineSimilarity(queryEmbedding, document.embedding) of the search route
RouteCosine ==
  /\ out' = [fn |-> "route", res |-> Returned(RouteCosineSimilarity(vecA, vecB))]
  /\ UNCHANGED <<vecA, vecB>>
  /\ UNCHANGED <<storeVars, searchVars, clientVars>>

InitVec ==
  /\ file = EmptyFile
  /\ now = 0
  /\ pc = [p \in Procs |-> "idle"]
  /\ docs = [p \in Procs |-> Arr(<<>>)]
  /\ newDoc = [p \in Procs |-> NoDoc]
  /\ resp = NoResp
  /\ missed = [p \in Procs |-> {}]
  /\ sreq = NoSearch
  /\ sresp = NoResp
  /\ bres = NoBrute
  /\ vecA \in Vectors
  /\ vecB \in Vectors
  /\ out = NoCall
  /\ es = NewService
  /\ ui = InitialUI
  /\ task = NoTasks

NextVec == ServiceCosine \/ RouteCosine

SpecVec == InitVec /\ [][NextVec]_vars

\* ------------------------------------ EmbeddingService and SearchInterface
\* The browser's single embeddingService and the components that call it.
\* A task runs from one await to the next in one step; an awaited promise
\* (tf.setBackend, use.load, model.embed, fetch) settles in a later step,
\* fulfilled or rejected.
MaxLoads == 3

\* loadModel() up to its first pending await: it returns at once when
\* isLoaded, awaits tf.setBackend when the backend is not initialized, and
\* otherwise invokes use.load()
LoadModelCall(s) ==
  IF s.isLoaded THEN [es |-> s, pc |-> "returned"]
  ELSE IF s.backendInitialized
         THEN [es |-> [s EXCEPT !.loads = @ + 1], pc |-> "load"]
         ELSE [es |-> s, pc |-> "backend"]

\* generateEmbedding(text) up to its first pending await: loadModel() when
\* model is null, then model.embed([text]).  (isLoaded with a null model
\* happens only on the server.)
GenerateEmbeddingCall(s) ==
  IF s.model THEN [es |-> s, pc |-> "embed"]
  ELSE LET c == LoadModelCall(s) IN
       IF c.pc = "returned" THEN [es |-> c.es, pc |-> "embed"] ELSE c

\* what task t does when its loadModel() returns, up to its next await
LoadModelReturns(t, from, s, u) ==
  CASE t = "preload" ->
         [es |-> s, ui |-> [u EXCEPT !.modelStatus = "ready"],
          pc |-> "done", from |-> "none"]
    [] t # "preload" /\ from = "handleSearch" ->
         LET g == GenerateEmbeddingCall(s) IN
         [es |-> g.es, ui |-> [u EXCEPT !.modelStatus = "ready"],
          pc |-> g.pc, from |-> "generateEmbedding"]
    [] OTHER ->
         [es |-> s, ui |-> u, pc |-> "embed", from |-> "generateEmbedding"]

\* a call of loadModel() by task t, and t's continuation if it returns at once
AwaitLoadModel(t, from, s, u) ==
  LET c == LoadModelCall(s) IN
  IF c.pc = "returned" THEN LoadModelReturns(t, from, c.es, u)
  ELSE [es |-> c.es, ui |-> u, pc |-> c.pc, from |-> from]

\* what task t does when an awaited call throws: preloadModel's catch,
\* handleSearch's catch and finally, the other component's own catch
Catch(t, s, u) ==
  CASE t = "preload" ->
         [es |-> s, ui |-> [u EXCEPT !.modelStatus = "idle"],
          pc |-> "done", from |-> "none"]
    [] t = "search" ->
         [es |-> s, ui |-> [u EXCEPT !.searchError = "failed", !.loading = FALSE],
          pc |-> "idle", from |-> "none"]
    [] OTHER -> [es |-> s, ui |-> u, pc |-> "idle", from |-> "none"]

Becomes(t, r) ==
  /\ r.es.loads <= MaxLoads
  /\ es' = r.es
  /\ ui' = r.ui
  /\ task' = [task EXCEPT ![t] = [pc |-> r.pc, from |-> r.from]]
  /\ UNCHANGED <<storeVars, searchVars, vecVars>>

\* the mount effect: setModelStatus('loading'); await loadModel()
PreloadModel ==
  /\ task["preload"].pc = "unmounted"
  /\ Becomes("preload",
             AwaitLoadModel("preload", "preloadModel", es,
                            [ui EXCEPT !.modelStatus = "loading"]))

\* handleSearch up to its first pending await (the controls are disabled
\* while loading)
HandleSearch(query) ==
  /\ task["preload"].pc # "unmounted"
  /\ task["search"].pc = "idle"
  /\ IF query = <<>>
       THEN Becomes("search",
                    [es |-> es, ui |-> [ui EXCEPT !.searchError = "empty"],
                     pc |-> "idle", from |-> "none"])
       ELSE LET u == [ui EXCEPT !.loading = TRUE, !.searchError = "null"] IN
            IF ui.modelStatus # "ready"
              THEN Becomes("search",
                           AwaitLoadModel("search", "handleSearch", es,
                                          [u EXCEPT !.modelStatus = "loading"]))
              ELSE LET g == GenerateEmbeddingCall(es) IN
                   Becomes("search",
                           [es |-> g.es, ui |-> u, pc |-> g.pc,
                            from |-> "generateEmbedding"])

\* another component calls embeddingService.generateEmbedding(text)
GenerateEmbedding ==
  /\ task["embed"].pc = "idle"
  /\ LET g == GenerateEmbeddingCall(es) IN
     Becomes("embed",
             [es |-> g.es, ui |-> ui, pc |-> g.pc, from |-> "generateEmbedding"])

\* tf.setBackend settles for task t: webgl or the cpu fallback succeeded
\* (backendInitialized = true, then use.load() is invoked), or both failed
BackendDone(t, ok) ==
  /\ task[t].pc = "backend"
  /\ IF ok
       THEN Becomes(t, [es |-> [es EXCEPT !.backendInitialized = TRUE,
                                          !.loads = @ + 1],
                        ui |-> ui, pc |-> "load", from |-> task[t].from])
       ELSE Becomes(t, Catch(t, es, ui))

\* use.load() settles for task t: model and isLoaded are set and loadModel
\* returns, or loadModel rethrows
LoadDone(t, ok) ==
  /\ task[t].pc = "load"
  /\ IF ok
       THEN Becomes(t, LoadModelReturns(t, task[t].from,
                                        [es EXCEPT !.model = TRUE,
                                                   !.isLoaded = TRUE], ui))
       ELSE Becomes(t, Catch(t, [es EXCEPT !.failed = @ + 1], ui))

\* model.embed settles for task t: handleSearch goes on to fetch
EmbedDone(t, ok) ==
  /\ task[t].pc = "embed"
  /\ IF ok
       THEN Becomes(t, [es |-> es, ui |-> ui,
                        pc |-> IF t = "search" THEN "fetch" ELSE "idle",
                        from |-> "none"])
       ELSE Becomes(t, Catch(t, es, ui))

\* fetch('/api/search') settles: results are shown, or the error is;
\* finally setLoading(false)
FetchDone(ok) ==
  /\ task["search"].pc = "fetch"
  /\ IF ok
       THEN Becomes("search", [es |-> es, ui |-> [ui EXCEPT !.loading = FALSE],
                               pc |-> "idle", from |-> "none"])
       ELSE Becomes("search", Catch("search", es, ui))

Queries == {<<>>, <<"q">>}

NextClient ==
  \/ PreloadModel
  \/ \E query \in Queries : HandleSearch(query)
  \/ GenerateEmbedding
  \/ \E t \in Tasks, ok \in BOOLEAN : BackendDone(t, ok)
  \/ \E t \in Tasks, ok \in BOOLEAN : LoadDone(t, ok)
  \/ \E t \in Tasks, ok \in BOOLEAN : EmbedDone(t, ok)
  \/ \E ok \in BOOLEAN : FetchDone(ok)

SpecClient == Init /\ [][NextClient]_vars

\* every pending promise settles and every resumed task runs
FairClient ==
  /\ \A t \in Tasks : WF_vars(\E ok \in BOOLEAN : BackendDone(t, ok))
  /\ \A t \in Tasks : WF_vars(\E ok \in BOOLEAN : LoadDone(t, ok))
  /\ \A t \in Tasks : WF_vars(\E ok \in BOOLEAN : EmbedDone(t, ok))
  /\ WF_vars(\E ok \in BOOLEAN : FetchDone(ok))

SpecClientFair == SpecClient /\ FairClient

\* ===================================================================== claims
InFile(d) == DocToJSON(d) \in Range(GetAllDocuments(file).a)

\* C1: round trip.  When addDocument(t, e, m) completes, getAllDocuments() gives
\* the collection the call found, followed by exactly one new entry that has
\* text t, embedding e, metadata m and the id this call generated at the
\* current time.
C1_RoundTrip ==
  [][\A p \in Procs :
       (pc[p] = "read" /\ pc'[p] = "added") =>
         LET before == docs[p].a
             after == GetAllDocuments(file')
         IN /\ after.ty = "array"
            /\ Len(after.a) = Len(before) + 1
            /\ SubSeq(after.a, 1, Len(before)) = before
            /\ LET entry == after.a[Len(before) + 1]
               IN /\ entry.text = newDoc[p].text
                  /\ entry.embedding = newDoc[p].embedding
                  /\ entry.metadata.createdAt = newDoc[p].metadata.createdAt
                  /\ entry.metadata.length = newDoc[p].metadata.length
                  /\ Category(entry.metadata) = newDoc[p].metadata.category
                  /\ entry.id = newDoc'[p].id
                  /\ entry.id.time = now
                  /\ entry.id.rnd \in Suffixes]_vars

\* a call has just added a document with embedding [1, 0] to a non-empty collection
C1_Witness ==
  \E p \in Procs :
    /\ pc[p] = "added"
    /\ newDoc[p].embedding = Arr(<<1, 0>>)
    /\ LET a == GetAllDocuments(file).a
       IN Len(a) = 2 /\ a[2] = DocToJSON(newDoc[p])

\* C5: an Ingest request whose text is missing or empty is answered 400, and
\* the file, hence getStats().totalDocuments, is what it was before; no handler
\* moves on to addDocument.
C5_EmptyTextRejected ==
  [][\A p \in Procs, r \in Requests :
       (Ingest(p, r) /\ ~Truthy(r.text)) =>
         /\ resp'.status = 400
         /\ file' = file
         /\ GetStats(file').totalDocuments = GetStats(file).totalDocuments
         /\ pc' = pc]_vars

\* a request without text has just been refused while the collection holds a document
C5_Witness ==
  /\ resp.status = 400
  /\ resp.error = "Text is required"
  /\ Len(GetAllDocuments(file).a) >= 1

\* C8: lost update.  When a call writes after other calls have written since its
\* read, the collection it leaves has gained fewer documents over the one it
\* read than there were successful additions (its own and the others'): the
\* file is its snapshot plus its own document only.
C8_LostUpdate ==
  [][\A p \in Procs :
       (pc[p] = "read" /\ pc'[p] = "added" /\ missed[p] # {}) =>
         LET after == GetAllDocuments(file').a
         IN /\ Len(after) - Len(docs[p].a) < 1 + Cardinality(missed[p])
            /\ after = docs[p].a \o <<DocToJSON(newDoc'[p])>>]_vars

\* both calls read the empty collection before either wrote, both have returned
\* their document, and the file holds only the later writer's
C8_Witness ==
  \E p, q \in Procs :
    /\ p # q
    /\ pc[p] = "added" /\ pc[q] = "added"
    /\ q \in missed[p]
    /\ newDoc[p] # newDoc[q]
    /\ GetAllDocuments(file).a = <<DocToJSON(newDoc[p])>>
    /\ ~InFile(newDoc[q])

\* C2: a search that is answered returns at most `limit` results (10 when limit
\* is left out; none when limit is below 1), in non-increasing order of
\* similarity, documents of equal similarity in corpus order.
C2_RankedAndLimited ==
  sresp.status = 200 =>
    LET res == sresp.results IN
      /\ Len(res) <= (IF LimitOf(sreq) < 0 THEN 0 ELSE LimitOf(sreq))
      /\ \A i \in 1..(Len(res) - 1) :
           \/ SimLess(res[i + 1].similarity, res[i].similarity)
           \/ SimEq(res[i + 1].similarity, res[i].similarity) /\ res[i].pos < res[i + 1].pos

\* the query embedding and the stored embeddings of the current search disagree in length
DimensionMismatch ==
  /\ Truthy(sreq.query) /\ IsArray(sreq.queryEmbedding)
  /\ LET documents == GetAllDocuments(file) IN
       /\ documents.ty = "array"
       /\ \E i \in 1..Len(documents.a) :
            Len(documents.a[i].embedding.a) # Len(sreq.queryEmbedding.a)

\* C3: a search whose query embedding differs in length from the embedding of
\* some document of the corpus fails as a whole; it is not answered with a
\* result list.
C3_FailFastOnMismatch == DimensionMismatch => sresp.status \notin {0, 200}

\* the file holds a JSON array of documents
IsCollection(f) == f.st = "ok" /\ IsArrayText(f.text)

\* C4: getAllDocuments never fails and returns a sequence; it returns the empty
\* sequence whenever the file is missing, unreadable or does not hold a
\* collection of documents.
C4_ReadNeverFails ==
  [][\A p \in Procs :
       (pc[p] = "idle" /\ pc'[p] = "read") =>
         /\ docs'[p].ty = "array"
         /\ ~IsCollection(file) => docs'[p].a = <<>>]_vars

\* C6: a document that addDocument has returned is in the collection, with the
\* same id, text, embedding and metadata, at every later time.
C6_Permanent == \A p \in Procs : pc[p] = "added" => InFile(newDoc[p])

\* C7: no two persisted documents have the same id.
C7_UniqueIds ==
  LET a == GetAllDocuments(file).a
  IN \A i, j \in 1..Len(a) : i # j => a[i].id # a[j].id

\* C9: after the write of an addDocument, completed, failed or interrupted by a
\* crash, a read gives the complete collection from before the write or the
\* complete collection after it.
C9_AtomicWrite ==
  [][\A p \in Procs :
       (pc[p] = "read" /\ pc'[p] # "read" /\ docs[p].ty = "array") =>
         \/ GetAllDocuments(file') = GetAllDocuments(file)
         \/ \E rnd \in Suffixes :
              GetAllDocuments(file') =
                Arr(docs[p].a \o <<DocToJSON(NewDoc(newDoc[p], now, rnd))>>)]_vars

\* C10: a search whose limit is zero or negative is answered with a validation
\* error (400).
C10_NonPositiveLimitRejected ==
  (sreq.limit.ty = "number" /\ sreq.limit.n <= 0) => sresp.status = 400

\* C11: a cosineSimilarity call, of the embedding service or of the search
\* route, on vectors of different lengths fails with the error "Vectors must
\* have the same dimensions"; it returns a value only for equal lengths.
C11_MismatchFails ==
  (out.fn # "none" /\ Len(vecA) # Len(vecB)) =>
    /\ out.res.threw
    /\ out.res.message = "Vectors must have the same dimensions"

\* the value is a number between -1 and 1, both included
InUnitInterval(x) == ~x.nan /\ x.dot * x.dot <= x.n /\ x.off <= 0

\* C12: for vectors of equal length a cosineSimilarity call, of the embedding
\* service or of the search route, returns a number in [-1, 1], and exactly 0
\* when one of the vectors is the zero vector.
C12_InUnitInterval ==
  (out.fn # "none" /\ Len(vecA) = Len(vecB)) =>
    /\ ~out.res.threw
    /\ InUnitInterval(out.res.value)
    /\ (SumSquares(vecA) = 0 \/ SumSquares(vecB) = 0) => out.res.value = Sim(0, 1)

\* C13: EmbeddingService.cosineSimilarity is symmetric: for vectors of equal
\* length the value returned for (a, b) is the value the function gives for (b, a).
C13_Symmetric ==
  (out.fn = "service" /\ Len(vecA) = Len(vecB)) =>
    /\ ~out.res.threw
    /\ out.res = EmbeddingServiceCosineSimilarity(vecB, vecA)

\* the service has scored two different non-zero vectors of different magnitude
\* that are not orthogonal
C13_Witness ==
  /\ out.fn = "service"
  /\ vecA = <<1, 0>> /\ vecB = <<1, 1>>
  /\ ~out.res.threw
  /\ out.res.value = Quotient(1, 1, 2)

\* C14: with addDocument calls one at a time and no storage failure, the
\* collection starts empty, every successful call appends the document it
\* returns to the end of the collection as it stood, and nothing else changes
\* the collection; so after n successful calls getAllDocuments returns those n
\* documents, each once, in the order they were added.
C14_SerialInsertionOrder ==
  /\ GetAllDocuments(file) = Arr(<<>>)
  /\ [][LET before == GetAllDocuments(file)
            after == GetAllDocuments(file')
        IN IF \E p \in Procs : pc[p] = "read" /\ pc'[p] = "added"
           THEN \E p \in Procs :
                  /\ pc[p] = "read" /\ pc'[p] = "added"
                  /\ after = Arr(before.a \o <<DocToJSON(newDoc'[p])>>)
           ELSE after = before]_vars

\* a second call has just added its document after a first, different one
C14_Witness ==
  \E p \in Procs :
    /\ pc[p] = "added"
    /\ LET a == GetAllDocuments(file).a
       IN /\ Len(a) = 2
          /\ a[2] = DocToJSON(newDoc[p])
          /\ a[1].text # a[2].text

\* the file holds no collection, or an empty one
NoDocuments(f) == ~IsCollection(f) \/ f.text = <<LB, RB>>

\* C15: a GET /api/data is answered with the statistics of getStats; over a
\* file that is missing, unreadable, not a collection, or an empty collection
\* they are totalDocuments 0, averageTextLength 0 and no categories, and over
\* any file totalDocuments is the number of documents getAllDocuments returns.
C15_StatsOfEmptyCorpus ==
  [][\A p \in Procs :
       (pc[p] = "get" /\ pc'[p] = "idle") =>
         /\ resp'.status = 200
         /\ resp'.stats.totalDocuments = Len(GetAllDocuments(file).a)
         /\ NoDocuments(file) =>
              /\ resp'.stats.totalDocuments = 0
              /\ resp'.stats.averageTextLength.num = 0
              /\ resp'.stats.categories = <<>>]_vars

\* C16: reads are idempotent and free of side effects.  No step of a GET
\* handler (getAllDocuments, then getStats, which reads again) changes the
\* file; and when nothing changed the file between the two reads, the second
\* read returns what the first returned: the statistics are those of the
\* sequence the first read gave.
C16_ReadsIdempotent ==
  [][\A p \in Procs :
       /\ (pc[p] = "idle" /\ pc'[p] = "get") => file' = file
       /\ (pc[p] = "get" /\ pc'[p] = "idle") =>
            /\ file' = file
            /\ missed[p] = {} =>
                 IF docs[p].ty = "array"
                 THEN resp'.status = 200 /\ resp'.stats = StatsOf(docs[p].a)
                 ELSE resp'.status = 500]_vars

\* a GET over two documents of different categories has just been answered,
\* with nothing having changed the file since its first read
C16_Witness ==
  /\ resp.status = 200
  /\ "stats" \in DOMAIN resp
  /\ resp.stats.totalDocuments = 2
  /\ Len(resp.stats.categories) = 2
  /\ Len(resp.recentDocuments) = 2
  /\ file.st = "ok"

\* the embedding of the body is missing, not an array, or an empty array
BadEmbedding(r) ==
  \/ r.embedding.ty = "undefined"
  \/ ~IsArray(r.embedding)
  \/ IsArray(r.embedding) /\ r.embedding.a = <<>>

\* C17: an Ingest request with a text, whose embedding is missing, not a
\* sequence or an empty sequence, is answered 400 and changes neither the file
\* nor any handler's progress.
C17_BadEmbeddingRejected ==
  [][\A p \in Procs, r \in Requests :
       (Ingest(p, r) /\ Truthy(r.text) /\ BadEmbedding(r)) =>
         /\ resp'.status = 400
         /\ file' = file
         /\ pc' = pc]_vars

\* C18: when the write of an addDocument throws, the caller gets an error and
\* a read afterwards gives the collection as it was before the call.
C18_FailedWriteAborts ==
  [][\A p \in Procs :
       (pc[p] = "read" /\ pc'[p] = "idle" /\ docs[p].ty = "array" /\ resp'.status = 500) =>
         /\ resp'.error = "Failed to add data"
         /\ GetAllDocuments(file') = docs[p]
         /\ GetAllDocuments(file') = GetAllDocuments(file)]_vars

\* C19: all persisted documents have embeddings of one length.
C19_FixedDimensionality ==
  LET documents == GetAllDocuments(file)
  IN documents.ty = "array" =>
       \A i, j \in 1..Len(documents.a) :
         Len(documents.a[i].embedding.a) = Len(documents.a[j].embedding.a)

\* the corpus holds two documents with embeddings [1, 0] and [0, 1], in that
\* order, and the search asked for is query embedding [1, 0] with limit 1
C20_Scenario ==
  /\ file = [st |-> "ok",
             text |-> JSONstringify(<<StoredDoc(<<1, 0>>, 1), StoredDoc(<<0, 1>>, 2)>>)]
  /\ Truthy(sreq.query)
  /\ sreq.queryEmbedding = Arr(<<1, 0>>)
  /\ sreq.limit = Num(1)

\* C20: in that scenario the search is answered with exactly one result, the
\* first document, with similarity exactly 1.
C20_ConcreteRanking ==
  C20_Scenario =>
    /\ sresp.status = 200
    /\ Len(sresp.results) = 1
    /\ sresp.totalResults = 1
    /\ sresp.results[1].id = StoredDoc(<<1, 0>>, 1).id
    /\ sresp.results[1].pos = 1
    /\ sresp.results[1].similarity = Sim(1, 1)

\* the scenario's search has been answered
C20_Witness == C20_Scenario /\ sresp.status = 200 /\ Len(sresp.results) = 1

\* C21: a search request, valid or rejected, leaves the file as it is; and a
\* valid one over an empty collection is answered 200 with an empty result list.
C21_SearchReadOnly ==
  [][/\ file' = file
     /\ (/\ Truthy(sreq'.query)
         /\ Truthy(sreq'.queryEmbedding) /\ IsArray(sreq'.queryEmbedding)
         /\ GetAllDocuments(file) = Arr(<<>>)) =>
          /\ sresp'.status = 200
          /\ sresp'.results = <<>>
          /\ sresp'.totalResults = 0]_vars

\* a valid search over the empty collection has been answered
C21_Witness ==
  /\ file = EmptyFile
  /\ sreq.queryEmbedding = Arr(<<1, 0>>)
  /\ sresp.status = 200
  /\ sresp.results = <<>>

\* C23: the processingTime of a search response is at least the processingTime
\* of every result in it.
C23_OverallCoversResults ==
  sresp.status = 200 =>
    \A i \in 1..Len(sresp.results) :
      sresp.processingTime >= sresp.results[i].processingTime

\* the processingTime values of a result list do not decrease in corpus order
\* and are not negative
TimesFollowCorpusOrder(results) ==
  /\ \A i \in 1..Len(results) : results[i].processingTime >= 0
  /\ \A i, j \in 1..Len(results) :
       results[i].pos < results[j].pos => results[i].processingTime <= results[j].processingTime

\* C24: in a search response, and in the result of bruteForceSearch, a
\* document scored later (further down the corpus) never has a smaller
\* processingTime than one scored earlier.
C24_TimesNonDecreasing ==
  /\ sresp.status = 200 => TimesFollowCorpusOrder(sresp.results)
  /\ (bres.called /\ ~bres.threw) => TimesFollowCorpusOrder(bres.results)

\* both implementations have ranked the second document of the corpus first,
\* with a larger processingTime than the first document's
C24_Witness ==
  /\ sresp.status = 200 /\ Len(sresp.results) = 2
  /\ sresp.results[1].pos = 2 /\ sresp.results[2].pos = 1
  /\ sresp.results[1].processingTime > sresp.results[2].processingTime
  /\ bres.called /\ ~bres.threw /\ Len(bres.results) = 2
  /\ bres.results[1].pos = 2
  /\ bres.results[1].processingTime > bres.results[2].processingTime

\* every stored embedding has the length of the query embedding
AllOfQueryLength ==
  LET documents == GetAllDocuments(file).a
  IN \A i \in 1..Len(documents) : Len(documents[i].embedding.a) = Len(sreq.queryEmbedding.a)

\* C25: when the route and bruteForceSearch have run on the same query
\* embedding, positive limit and corpus, all embeddings having the query's
\* length, they return the same ids in the same order with the same
\* similarity values.
C25_ImplementationsAgree ==
  (sresp.status = 200 /\ bres.called /\ LimitOf(sreq) > 0 /\ AllOfQueryLength) =>
    /\ ~bres.threw
    /\ Len(bres.results) = Len(sresp.results)
    /\ \A i \in 1..Len(sresp.results) :
         /\ bres.results[i].id = sresp.results[i].id
         /\ bres.results[i].similarity = sresp.results[i].similarity

\* C22: when an Ingest request is answered 200, the document it created is in
\* the collection its statistics were computed from, and totalDocuments is at
\* least 1, whatever other Ingest requests ran in between.
C22_StatsCountCreated ==
  [][\A p \in Procs :
       (pc[p] = "added" /\ pc'[p] = "idle" /\ resp'.status = 200) =>
         /\ InFile(newDoc[p])
         /\ resp'.totalDocuments = Len(GetAllDocuments(file).a)
         /\ resp'.totalDocuments >= 1]_vars

\* a loadModel call of task t is in flight
LoadInFlight(t) == task[t].pc \in {"backend", "load"}

\* C26: the model is loaded at most once per EmbeddingService: under any
\* interleaving of loadModel and generateEmbedding calls, at most one
\* use.load() that is pending or fulfilled has ever been invoked (a load
\* invoked again after a rejected one is not counted).
C26_LoadedOnce == es.loads - es.failed <= 1

\* C27: modelStatus is 'loading' only while a loadModel call is in flight.
C27_LoadingOnlyInFlight ==
  ui.modelStatus = "loading" => \E t \in Tasks : LoadInFlight(t)

====
